---- MODULE Spec2Model ----
(***************************************************************************)
(* Job tracking of the downloader backend.                                 *)
(*                                                                         *)
(* Two programs live in the repository and each keeps its own registry:    *)
(*   - the asyncio service (app/services/download_service.py behind        *)
(*     app/api/v1/endpoints/downloads.py): registry download_tasks,        *)
(*     written by the perform_download coroutine on the event loop and by  *)
(*     progress_hook on the worker thread of asyncio.to_thread;            *)
(*   - the threaded Flask program (app.py over downloader.py): registry    *)
(*     app_download_tasks, written by one perform_download_task thread per *)
(*     job while request handlers read it from other threads.              *)
(*                                                                         *)
(* Both serve the downloaded files by name from the download directory     *)
(* of the project root; the disk is the set of its regular files.          *)
(*                                                                         *)
(* Python values: Optional[T] is None == <<>> or Some(v) == <<v>>; a       *)
(* string that the code takes apart (a path, a percent string) is a        *)
(* sequence of tokens, "/" being the path separator; a float percent is    *)
(* the integer it denotes.                                                 *)
(***************************************************************************)
EXTENDS Integers, Sequences, FiniteSets, TLC

\* ------------------------------------------------------------- bounds
\* progress callbacks the collaborator makes per job
MaxHooks == 2
\* calls made on a ProgressReporter from outside perform_download (SpecReporter)
MaxCalls == 1

\* the values uuid.uuid4() can return
TaskIds == {"t1", "t2"}

\* ------------------------------------------------------------- Python values
None == <<>>
Some(x) == <<x>>
\* truth value of an Optional[str] whose string is a token sequence
Truthy(o) == o # None /\ o[1] # <<>>

\* str.strip() on a token sequence: leading and trailing blanks removed
RECURSIVE LStrip(_)
LStrip(s) == IF s # <<>> /\ Head(s) = " " THEN LStrip(Tail(s)) ELSE s
RECURSIVE RStrip(_)
RStrip(s) == IF s # <<>> /\ s[Len(s)] = " " THEN RStrip(SubSeq(s, 1, Len(s) - 1)) ELSE s
Strip(s) == RStrip(LStrip(s))

\* s with every token equal to t removed (re.sub(..., '') and str.replace(t, ''))
Without(s, t) == SelectSeq(s, LAMBDA x : x # t)

\* os.path.basename: what follows the last separator
RECURSIVE LastSep(_, _)
LastSep(p, i) == IF i = 0 THEN 0 ELSE IF p[i] = "/" THEN i ELSE LastSep(p, i - 1)
basename(p) == SubSeq(p, LastSep(p, Len(p)) + 1, Len(p))

\* os.path.join(a, b): an absolute b replaces a
join(a, b) == IF b # <<>> /\ Head(b) = "/" THEN b ELSE a \o <<"/">> \o b

\* str.startswith
startswith(s, prefix) == Len(prefix) <= Len(s) /\ SubSeq(s, 1, Len(prefix)) = prefix

\* os.path.isabs
isabs(p) == p # <<>> /\ Head(p) = "/"

\* the components of a path: the token runs between its separators
RECURSIVE parts(_, _, _)
parts(p, cur, acc) ==
    IF p = <<>> THEN Append(acc, cur)
    ELSE IF Head(p) = "/" THEN parts(Tail(p), <<>>, Append(acc, cur))
    ELSE parts(Tail(p), cur \o <<Head(p)>>, acc)

\* components normalised: empty ones and "." dropped, ".." takes back the component
\* before it; ".." stays at the root of an absolute path and is kept at the front of
\* a relative one
RECURSIVE collapse(_, _, _)
collapse(comps, stack, absolute) ==
    IF comps = <<>> THEN stack
    ELSE IF Head(comps) \in {<<>>, <<".">>} THEN collapse(Tail(comps), stack, absolute)
    ELSE IF Head(comps) # <<"..">>
         THEN collapse(Tail(comps), Append(stack, Head(comps)), absolute)
    ELSE IF stack # <<>> /\ stack[Len(stack)] # <<"..">>
         THEN collapse(Tail(comps), SubSeq(stack, 1, Len(stack) - 1), absolute)
    ELSE IF absolute THEN collapse(Tail(comps), stack, absolute)
    ELSE collapse(Tail(comps), Append(stack, Head(comps)), absolute)

\* components joined by the separator
RECURSIVE sepjoin(_)
sepjoin(comps) ==
    IF comps = <<>> THEN <<>>
    ELSE IF Len(comps) = 1 THEN Head(comps)
    ELSE Head(comps) \o <<"/">> \o sepjoin(Tail(comps))

\* posixpath.normpath
normpath(p) ==
    IF isabs(p) THEN <<"/">> \o sepjoin(collapse(parts(p, <<>>, <<>>), <<>>, TRUE))
    ELSE IF collapse(parts(p, <<>>, <<>>), <<>>, FALSE) = <<>> THEN <<".">>
    ELSE sepjoin(collapse(parts(p, <<>>, <<>>), <<>>, FALSE))

\* Path.resolve() of an absolute path on a disk without symbolic links
resolve(p) == normpath(p)

\* Path.is_file() and os.path.isfile of an absolute path: the operating system
\* walks the path, ".." included, to a regular file
is_file(p, disk) == normpath(p) \in disk

\* settings.BASE_DIR, the project root; app.py lies in it, so it is also the
\* root_path of the Flask program
BASE_DIR == <<"/", "srv">>

\* settings.DOWNLOAD_DIR of the service
DOWNLOAD_DIR == <<"/", "srv", "/", "downloads">>

\* ------------------------------------------------------------- inputs
\* url values of a request body: absent, empty, a URL
BodyUrls == {None, Some(""), Some("https://example.com/v1")}
Formats == {"mp4"}
Bodies == [url : BodyUrls, format : Formats]

\* pydantic HttpUrl: the field is required and must parse as an http(s) URL
HttpUrlValid(u) == u = Some("https://example.com/v1")

\* full paths the collaborator reports
Paths == { <<"/", "srv", "/", "downloads", "/", "a.mp4">>,
           <<"c.webm">> }

\* _percent_str values: "ESC" is one ANSI colour sequence; yt-dlp divides the bytes
\* received by an estimate of the total, so the quotient can pass 100
PercentStrs == { <<"ESC", " ", "50.0", "%", "ESC">>,
                 <<"150.0", "%">>,
                 <<" ", " ", "N/A", "%">>,
                 <<"Unknown", " ", "%">> }

\* float(): the strings that parse, and their values
IsFloat(s) == s \in { <<"0.0">>, <<"50.0">>, <<"100.0">>, <<"150.0">> }
float(s) ==
    CASE s = <<"0.0">> -> 0 [] s = <<"50.0">> -> 50 [] s = <<"100.0">> -> 100
      [] s = <<"150.0">> -> 150

\* the dictionaries yt-dlp passes to a progress hook
DownloadingEvents == { [status |-> "downloading", percent_str |-> ps,
                        eta_str |-> <<" ", "00:05">>, speed_str |-> <<"1MiB/s", " ">>,
                        filename |-> "a.part"] : ps \in PercentStrs }
FinishedEvents == { [status |-> "finished", filepath |-> None, requested_downloads |-> None],
                    [status |-> "finished", filepath |-> Some(<<>>),
                     requested_downloads |-> Some(<<"downloads", "/", "b.mp3">>)],
                    [status |-> "finished",
                     filepath |-> Some(<<"/", "srv", "/", "downloads", "/", "a.mp4">>),
                     requested_downloads |-> None] }
OtherEvents == { [status |-> "error"] }
HookEvents == DownloadingEvents \cup FinishedEvents \cup OtherEvents

\* what the collaborator raises: str(e) is msg
Exceptions == { [type |-> "DownloadError", msg |-> "ERROR: Video unavailable"],
                [type |-> "Exception", msg |-> ""] }

\* regular files that may lie on the disk: a download, a file of the project root,
\* a file of a directory next to the download directory whose name begins with
\* the download directory's name
AllFiles == { <<"/", "srv", "/", "downloads", "/", "a.mp4">>,
              <<"/", "srv", "/", "secret.txt">>,
              <<"/", "srv", "/", "downloads", "_evil", "/", "s.txt">> }
\* the disk while jobs run
DiskFiles == AllFiles

\* file names of GET /downloaded/...
FileNames == { <<"a.mp4">>,
               <<"missing.mp4">>,
               <<"..", "/", "secret.txt">>,
               <<"..", "/", "downloads", "_evil", "/", "s.txt">> }

\* ------------------------------------------------------------- state
VARIABLES
    download_tasks,     \* service registry: task id -> DownloadTask
    pc,                 \* service: where the perform_download coroutine of each id is
    final_info_dict,    \* service: the nonlocal of each perform_download
    downloaded_file_full_path,
                        \* service: the local of each perform_download, lines 231-251
    hooks,              \* service: progress callbacks made so far for each id
    clock,              \* per id: the value the next datetime.utcnow() returns to its job
    raised,             \* per id: the collaborator raised an error in the job
    calls,              \* reporter calls made from outside perform_download
    call,               \* the reporter call the last step made, in progress_hook or
                        \* from outside
    app_download_tasks, \* Flask registry: task id -> dict
    app_pc,             \* Flask: where the perform_download_task thread of each id is
    app_args,           \* Flask: the arguments of each thread
    app_result,         \* Flask: the local `result` of each thread
    http,               \* the request handled in the last step and its response
    files,              \* the regular files on disk, by absolute path
    ydl_opts            \* service: the options perform_download built last, and the
                        \* request it built them for

svc_vars ==
    <<download_tasks, pc, final_info_dict, downloaded_file_full_path, hooks, clock>>
rep_vars == <<calls, call>>
app_vars == <<app_download_tasks, app_pc, app_args, app_result>>
vars == <<svc_vars, app_vars, rep_vars, raised, http, files, ydl_opts>>

\* Timestamps are only ever compared within one job, so utcnow() is a strictly
\* increasing reading per job: clock[id] counts the readings made for id.

\* ------------------------------------------------------------- schemas
Progress(percent, eta, speed, status_message) ==
    [percent |-> percent, eta |-> eta, speed |-> speed, status_message |-> status_message]

\* a faulty NewTask: the initial status of the Flask program
NewTask_pending(task_id, request, now) ==
    [id |-> task_id, url |-> request.url[1], format |-> request.format,
     status |-> "pending",
     progress |-> Progress(0, <<"N/A">>, <<"N/A">>, <<"Queued">>),
     info |-> None, filepath |-> None, error |-> None,
     startTime |-> now, endTime |-> None]

\* the DownloadTask initiate_download_task constructs
NewTask(task_id, request, now) ==
    [id |-> task_id, url |-> request.url[1], format |-> request.format,
     status |-> "queued",
     progress |-> Progress(0, <<"N/A">>, <<"N/A">>, <<"Queued">>),
     info |-> None, filepath |-> None, error |-> None,
     startTime |-> now, endTime |-> None]

\* ------------------------------------------------------------- ProgressReporter
\* a faulty update_progress: it also marks the job as downloading
update_progress_sets_status(tasks, task_id, percent, eta, speed, status_message) ==
    IF task_id \in DOMAIN tasks
    THEN [tasks EXCEPT ![task_id].progress = Progress(percent, eta, speed, status_message),
                       ![task_id].status = "downloading"]
    ELSE tasks

\* a faulty update_progress: the progress is written to every record of the registry
update_progress_every_record(tasks, task_id, percent, eta, speed, status_message) ==
    [j \in DOMAIN tasks |->
        [tasks[j] EXCEPT !.progress = Progress(percent, eta, speed, status_message)]]

\* a faulty update_progress: a record is made for an id the registry does not hold
update_progress_creates(tasks, task_id, percent, eta, speed, status_message) ==
    IF task_id \in DOMAIN tasks
    THEN [tasks EXCEPT ![task_id].progress = Progress(percent, eta, speed, status_message)]
    ELSE (task_id :> [status |-> "downloading",
                      progress |-> Progress(percent, eta, speed, status_message)]) @@ tasks

\* update_progress: the registry after the call
update_progress(tasks, task_id, percent, eta, speed, status_message) ==
    IF task_id \in DOMAIN tasks
    THEN [tasks EXCEPT ![task_id].progress = Progress(percent, eta, speed, status_message)]
    ELSE tasks

\* a faulty set_status: the path is stored as it was reported
set_status_full_path(tasks, task_id, status, error, filepath, now) ==
    IF task_id \in DOMAIN tasks
    THEN [tasks EXCEPT ![task_id].status = status,
                       ![task_id].error = error,
                       ![task_id].filepath = IF Truthy(filepath) THEN filepath ELSE None,
                       ![task_id].endTime = Some(now)]
    ELSE tasks

\* a faulty set_status: a new phase starts the progress over
set_status_resets_progress(tasks, task_id, status, error, filepath, now) ==
    IF task_id \in DOMAIN tasks
    THEN [tasks EXCEPT ![task_id].status = status,
                       ![task_id].error = error,
                       ![task_id].filepath =
                           IF Truthy(filepath) THEN Some(basename(filepath[1])) ELSE None,
                       ![task_id].endTime = Some(now),
                       ![task_id].progress = Progress(0, <<"N/A">>, <<"N/A">>, <<"Queued">>)]
    ELSE tasks

\* set_status: the registry after the call; filepath is an Optional path
set_status(tasks, task_id, status, error, filepath, now) ==
    IF task_id \in DOMAIN tasks
    THEN [tasks EXCEPT ![task_id].status = status,
                       ![task_id].error = error,
                       ![task_id].filepath =
                           IF Truthy(filepath) THEN Some(basename(filepath[1])) ELSE None,
                       ![task_id].endTime = Some(now)]
    ELSE tasks

\* ------------------------------------------------------------- progress_hook
\* percent_cleaned of a 'downloading' event
PercentCleaned(d) == Strip(Without(Without(d.percent_str, "ESC"), "%"))
\* float(percent_cleaned) raises ValueError
HookRaises(d) ==
    /\ d.status = "downloading"
    /\ PercentCleaned(d) \notin {<<"N/A">>, <<>>}
    /\ ~IsFloat(PercentCleaned(d))
HookPercent(d) ==
    IF PercentCleaned(d) \notin {<<"N/A">>, <<>>} THEN float(PercentCleaned(d)) ELSE 0

\* a faulty progress_hook: it hands the downloaded file to set_status at 'finished'
progress_hook_with_filename(tasks, task_id, d, now) ==
    CASE d.status = "downloading" ->
            update_progress(tasks, task_id, HookPercent(d), Strip(d.eta_str),
                            Strip(d.speed_str),
                            <<"Downloading: ", d.filename>> \o PercentCleaned(d) \o <<"%">>)
      [] d.status = "finished" ->
            set_status(tasks, task_id, "post-processing", None,
                       Some(<<"downloads", "/", "a.part">>), now)
      [] OTHER -> tasks

\* the registry after progress_hook(d) returned normally
progress_hook(tasks, task_id, d, now) ==
    CASE d.status = "downloading" ->
            update_progress(tasks, task_id, HookPercent(d), Strip(d.eta_str),
                            Strip(d.speed_str),
                            <<"Downloading: ", d.filename>> \o PercentCleaned(d) \o <<"%">>)
      [] d.status = "finished" ->
            set_status(tasks, task_id, "post-processing", None, None, now)
      [] OTHER -> tasks

\* ------------------------------------------------------------- service actions
\* http in a step that is no request handler
NoExchange == [req |-> [op |-> "none"], resp |-> [code |-> 0]]

\* ydl_opts before perform_download has built any options
NoOpts == [request |-> None, opts |-> None]

\* uuid.uuid4() returns an id no registry has seen
FreshIds(tasks, app_tasks) == TaskIds \ (DOMAIN tasks \cup DOMAIN app_tasks)

\* call in a step that makes no call of a reporter
NoCall == [method |-> "none", task_id |-> "", status |-> "", percent |-> 0]

InitJobs ==
    /\ download_tasks = << >>
    /\ pc = [i \in TaskIds |-> "none"]
    /\ final_info_dict = [i \in TaskIds |-> None]
    /\ downloaded_file_full_path = [i \in TaskIds |-> None]
    /\ hooks = [i \in TaskIds |-> 0]
    /\ clock = [i \in TaskIds |-> 0]
    /\ raised = [i \in TaskIds |-> FALSE]
    /\ calls = 0
    /\ call = NoCall
    /\ app_download_tasks = << >>
    /\ app_pc = [i \in TaskIds |-> "none"]
    /\ app_args = [i \in TaskIds |-> None]
    /\ app_result = [i \in TaskIds |-> None]
    /\ http = NoExchange
    /\ ydl_opts = NoOpts

Init == InitJobs /\ files = DiskFiles

\* POST /start with a body pydantic rejects: the handler never runs
StartDownloadInvalid(body) ==
    /\ ~HttpUrlValid(body.url)
    /\ http' = [req |-> [op |-> "start", body |-> body], resp |-> [code |-> 422]]
    /\ call' = NoCall
    /\ UNCHANGED <<svc_vars, app_vars, calls, raised, files, ydl_opts>>

\* a faulty submit: perform_download is awaited, so the id is returned when the
\* job has ended
StartDownload_awaits(body, task_id) ==
    /\ HttpUrlValid(body.url)
    /\ task_id \in FreshIds(download_tasks, app_download_tasks)
    /\ download_tasks' =
           (task_id :> [NewTask(task_id, body, clock[task_id]) EXCEPT
                           !.status = "failed", !.error = Some("ERROR: Video unavailable"),
                           !.endTime = Some(clock[task_id] + 1)]) @@ download_tasks
    /\ clock' = [clock EXCEPT ![task_id] = @ + 2]
    /\ pc' = [pc EXCEPT ![task_id] = "done"]
    /\ http' = [req |-> [op |-> "start", body |-> body],
                resp |-> [code |-> 202, task_id |-> task_id]]
    /\ call' = NoCall
    /\ UNCHANGED <<final_info_dict, downloaded_file_full_path, hooks, app_vars, calls,
                   raised, files, ydl_opts>>

\* a faulty submit: the task is created but the record is never put in the registry
StartDownload_unregistered(body, task_id) ==
    /\ HttpUrlValid(body.url)
    /\ pc[task_id] = "none"
    /\ task_id \in FreshIds(download_tasks, app_download_tasks)
    /\ pc' = [pc EXCEPT ![task_id] = "scheduled"]
    /\ http' = [req |-> [op |-> "start", body |-> body],
                resp |-> [code |-> 202, task_id |-> task_id]]
    /\ call' = NoCall
    /\ UNCHANGED <<download_tasks, clock, final_info_dict, downloaded_file_full_path, hooks,
                   app_vars, calls, raised, files, ydl_opts>>

\* POST /start: start_download -> initiate_download_task
StartDownload(body, task_id) ==
    /\ HttpUrlValid(body.url)
    /\ task_id \in FreshIds(download_tasks, app_download_tasks)
    /\ download_tasks' = (task_id :> NewTask(task_id, body, clock[task_id])) @@ download_tasks
    /\ clock' = [clock EXCEPT ![task_id] = @ + 1]
    /\ pc' = [pc EXCEPT ![task_id] = "scheduled"]
    /\ http' = [req |-> [op |-> "start", body |-> body],
                resp |-> [code |-> 202, task_id |-> task_id]]
    /\ call' = NoCall
    /\ UNCHANGED <<final_info_dict, downloaded_file_full_path, hooks, app_vars, calls,
                   raised, files, ydl_opts>>

\* perform_download up to its await: lines 111-118 and the option building
PerformDownloadStart(task_id) ==
    /\ pc[task_id] = "scheduled"
    /\ IF task_id \in DOMAIN download_tasks
       THEN /\ download_tasks' = [download_tasks EXCEPT ![task_id].status = "downloading"]
            /\ pc' = [pc EXCEPT ![task_id] = "thread"]
       ELSE /\ pc' = [pc EXCEPT ![task_id] = "done"]
            /\ UNCHANGED download_tasks
    /\ http' = NoExchange
    /\ call' = NoCall
    /\ UNCHANGED <<final_info_dict, downloaded_file_full_path, hooks, clock, app_vars,
                   calls, raised, files, ydl_opts>>

\* faulty except clauses: the second one is missing
Caught_DownloadErrorOnly(e) == e.type = "DownloadError"

\* lines 259 and 262: the exceptions the two except clauses catch
Caught(e) == e.type \in {"DownloadError", "Exception"}

\* faulty except clauses: the exception is logged and nothing is reported
ReportFailure_silent(tasks, task_id, e, now) == tasks

\* a faulty except clause: the record of a failed job is dropped from the registry
ReportFailure_drops(tasks, task_id, e, now) ==
    [j \in DOMAIN tasks \ {task_id} |-> tasks[j]]

\* lines 259-264: a caught exception is reported, any other leaves the coroutine
ReportFailure(tasks, task_id, e, now) ==
    IF Caught(e)
    THEN set_status(tasks, task_id, "failed", Some(e.msg), None, now)
    ELSE tasks

\* line 254
PathError ==
    [type |-> "Exception",
     msg |-> "Could not determine final downloaded file path after completion."]

\* a faulty end of perform_download: line 253's test is missing
ReportOutcome_unchecked(tasks, task_id, path, now) ==
    set_status(tasks, task_id, "completed", None, path, now)

\* lines 253-256, with line 254's exception taken to the except clauses
ReportOutcome(tasks, task_id, path, now) ==
    IF ~Truthy(path)
    THEN ReportFailure(tasks, task_id, PathError, now)
    ELSE set_status(tasks, task_id, "completed", None, path, now)

\* lines 134 and 145: the reporter call progress_hook(d) makes, if any
HookCall(task_id, d) ==
    CASE d.status = "downloading" ->
            [method |-> "update_progress", task_id |-> task_id, status |-> "",
             percent |-> HookPercent(d)]
      [] d.status = "finished" ->
            [method |-> "set_status", task_id |-> task_id, status |-> "post-processing",
             percent |-> 0]
      [] OTHER -> NoCall

\* a faulty hook-up: the download is not awaited, so callbacks go on after the
\* coroutine has reported the outcome
ProgressHook_detached(task_id, d) ==
    /\ pc[task_id] \in {"thread", "done"}
    /\ hooks[task_id] < MaxHooks
    /\ ~HookRaises(d)
    /\ download_tasks' = progress_hook(download_tasks, task_id, d, clock[task_id])
    /\ clock' = IF d.status = "finished" THEN [clock EXCEPT ![task_id] = @ + 1] ELSE clock
    /\ final_info_dict' = IF d.status = "finished"
                          THEN [final_info_dict EXCEPT ![task_id] = Some(d)]
                          ELSE final_info_dict
    /\ hooks' = [hooks EXCEPT ![task_id] = @ + 1]
    /\ http' = NoExchange
    /\ call' = HookCall(task_id, d)
    /\ UNCHANGED <<pc, downloaded_file_full_path, app_vars, calls, raised, files, ydl_opts>>

\* yt-dlp calls progress_hook(d) on the worker thread and the hook returns
ProgressHook(task_id, d) ==
    /\ pc[task_id] = "thread"
    /\ hooks[task_id] < MaxHooks
    /\ ~HookRaises(d)
    /\ download_tasks' = progress_hook(download_tasks, task_id, d, clock[task_id])
    /\ clock' = IF d.status = "finished" THEN [clock EXCEPT ![task_id] = @ + 1] ELSE clock
    /\ final_info_dict' = IF d.status = "finished"
                          THEN [final_info_dict EXCEPT ![task_id] = Some(d)]
                          ELSE final_info_dict
    /\ hooks' = [hooks EXCEPT ![task_id] = @ + 1]
    /\ http' = NoExchange
    /\ call' = HookCall(task_id, d)
    /\ UNCHANGED <<pc, downloaded_file_full_path, app_vars, calls, raised, files, ydl_opts>>

\* the coroutine ends, normally or by the exception e that no clause caught: its
\* frame (final_info_dict) is gone and the collaborator makes no further callback
Return(task_id, e) ==
    /\ pc' = [pc EXCEPT ![task_id] = IF e = None \/ Caught(e[1]) THEN "done" ELSE "escaped"]
    /\ final_info_dict' = [final_info_dict EXCEPT ![task_id] = None]
    /\ hooks' = [hooks EXCEPT ![task_id] = 0]
    /\ clock' = IF e = None \/ Caught(e[1]) THEN [clock EXCEPT ![task_id] = @ + 1] ELSE clock

\* float() at line 133
ValueError == [type |-> "Exception", msg |-> "could not convert string to float"]

\* progress_hook(d) raises ValueError at line 133: it leaves ydl.download and
\* reaches the except clauses
ProgressHookRaises(task_id, d) ==
    /\ pc[task_id] = "thread"
    /\ hooks[task_id] < MaxHooks
    /\ HookRaises(d)
    /\ download_tasks' = ReportFailure(download_tasks, task_id, ValueError, clock[task_id])
    /\ raised' = [raised EXCEPT ![task_id] = TRUE]
    /\ Return(task_id, Some(ValueError))
    /\ http' = NoExchange
    /\ call' = NoCall
    /\ UNCHANGED <<downloaded_file_full_path, app_vars, calls, files, ydl_opts>>

\* ydl.download (or the YoutubeDL constructor) raises e: lines 259-264
DownloadRaises(task_id, e) ==
    /\ pc[task_id] = "thread"
    /\ download_tasks' = ReportFailure(download_tasks, task_id, e, clock[task_id])
    /\ raised' = [raised EXCEPT ![task_id] = TRUE]
    /\ Return(task_id, Some(e))
    /\ http' = NoExchange
    /\ call' = NoCall
    /\ UNCHANGED <<downloaded_file_full_path, app_vars, calls, files, ydl_opts>>

\* lines 231-235: the path the 'finished' dictionary supplies, None if it has none
HookPath(fid) ==
    IF fid # None /\ Truthy(fid[1].filepath) THEN fid[1].filepath
    ELSE IF fid # None /\ fid[1].requested_downloads # None THEN fid[1].requested_downloads
    ELSE None

\* a faulty coroutine: it does not wait for the worker thread, and reports the
\* outcome while the thread is still at work
DownloadReturns_unawaited(task_id) ==
    /\ pc[task_id] = "thread"
    /\ download_tasks' = ReportOutcome(download_tasks, task_id,
                             HookPath(final_info_dict[task_id]), clock[task_id])
    /\ downloaded_file_full_path' =
           [downloaded_file_full_path EXCEPT ![task_id] = HookPath(final_info_dict[task_id])]
    /\ http' = NoExchange
    /\ call' = NoCall
    /\ UNCHANGED <<pc, clock, final_info_dict, hooks, app_vars, calls, raised, files, ydl_opts>>

\* ydl.download returns: lines 231-256
DownloadReturns(task_id) ==
    /\ pc[task_id] = "thread"
    /\ IF HookPath(final_info_dict[task_id]) # None
       THEN /\ download_tasks' = ReportOutcome(download_tasks, task_id,
                                     HookPath(final_info_dict[task_id]), clock[task_id])
            /\ Return(task_id, None)
       ELSE /\ pc' = [pc EXCEPT ![task_id] = "re_extract"]
            /\ UNCHANGED <<download_tasks, clock, final_info_dict, hooks>>
    /\ downloaded_file_full_path' =
           [downloaded_file_full_path EXCEPT ![task_id] = HookPath(final_info_dict[task_id])]
    /\ http' = NoExchange
    /\ call' = NoCall
    /\ UNCHANGED <<app_vars, calls, raised, files, ydl_opts>>

\* lines 241-251: the path of the fallback; predicted is None when extract_info or
\* prepare_filename raised
PredictedPath(predicted, exists) ==
    IF predicted = None THEN None
    ELSE IF exists THEN Some(join(DOWNLOAD_DIR, predicted[1])) ELSE None

\* the fallback's extract_info returns or raises: lines 241-256
ReExtract(task_id, predicted, exists) ==
    /\ pc[task_id] = "re_extract"
    /\ download_tasks' = ReportOutcome(download_tasks, task_id,
                             PredictedPath(predicted, exists), clock[task_id])
    /\ downloaded_file_full_path' =
           [downloaded_file_full_path EXCEPT ![task_id] = PredictedPath(predicted, exists)]
    /\ raised' = [raised EXCEPT ![task_id] = @ \/ predicted = None]
    /\ Return(task_id, IF PredictedPath(predicted, exists) = None
                       THEN Some(PathError) ELSE None)
    /\ http' = NoExchange
    /\ call' = NoCall
    /\ UNCHANGED <<app_vars, calls, files, ydl_opts>>

\* a faulty lookup: an id the registry does not hold is answered as a queued job
StatusResponse_default(tasks, task_id) ==
    IF task_id \in DOMAIN tasks
    THEN [code |-> 200, status |-> tasks[task_id].status, task |-> tasks[task_id]]
    ELSE [code |-> 200, status |-> "queued"]

\* the body of the service's status response
StatusResponse(tasks, task_id) ==
    IF task_id \in DOMAIN tasks
    THEN [code |-> 200, status |-> tasks[task_id].status, task |-> tasks[task_id]]
    ELSE [code |-> 404]

\* GET /status/{task_id}
GetDownloadStatus(task_id) ==
    /\ http' = [req |-> [op |-> "status", task_id |-> task_id],
                resp |-> StatusResponse(download_tasks, task_id)]
    /\ call' = NoCall
    /\ UNCHANGED <<svc_vars, app_vars, calls, raised, files, ydl_opts>>

\* ------------------------------------------------------------- Flask program
\* DOWNLOAD_DIR of downloader.py
APP_DOWNLOAD_DIR == <<"downloads">>

\* JSON bodies of POST /download: url absent, empty or a URL; format absent or audio
AppBodies == [url : BodyUrls, format : {None, Some("audio")}]

\* start_download lines 25-27: the body is refused
AppBodyRefused(data) == data.url = None

\* start_download lines 30, 37-39: the format string handed to the thread
AppFormatChoice(data) ==
    IF data.format = Some("audio") THEN "bestaudio/best" ELSE "bestvideo+bestaudio/best"

\* the dict start_download stores at line 34
AppNewTask == [status |-> "pending", info |-> None, filepath |-> None, error |-> None]

\* titles yt-dlp extracts
Titles == {"Song"}

\* downloader.download_video: the dicts it can return for a url. An empty url is no
\* URL to yt-dlp, which raises DownloadError for it.
DownloadVideoSuccess ==
    { [status |-> "success", title |-> t,
       filepath |-> join(APP_DOWNLOAD_DIR, <<t, ".mp4">>)] : t \in Titles }
DownloadVideoError ==
    { [status |-> "error",
       message |-> IF e.type = "DownloadError"
                   THEN <<"Download Error: ", e.msg>>
                   ELSE <<"An unexpected server error occurred: ", e.msg>>] : e \in Exceptions }
download_video(url) ==
    IF url = "" THEN DownloadVideoError ELSE DownloadVideoSuccess \cup DownloadVideoError

\* POST /download refused: lines 25-27
AppStartDownloadRefused(data) ==
    /\ AppBodyRefused(data)
    /\ http' = [req |-> [op |-> "app_start", body |-> data], resp |-> [code |-> 400]]
    /\ call' = NoCall
    /\ UNCHANGED <<svc_vars, app_vars, calls, raised, files, ydl_opts>>

\* POST /download accepted: lines 29-51
AppStartDownload(data, task_id) ==
    /\ ~AppBodyRefused(data)
    /\ task_id \in FreshIds(download_tasks, app_download_tasks)
    /\ app_download_tasks' = (task_id :> AppNewTask) @@ app_download_tasks
    /\ app_args' = [app_args EXCEPT ![task_id] =
                       Some([video_url |-> data.url[1],
                             ydl_format_choice |-> AppFormatChoice(data)])]
    /\ app_pc' = [app_pc EXCEPT ![task_id] = "started"]
    /\ http' = [req |-> [op |-> "app_start", body |-> data],
                resp |-> [code |-> 202, task_id |-> task_id]]
    /\ call' = NoCall
    /\ UNCHANGED <<svc_vars, app_result, calls, raised, files, ydl_opts>>

\* perform_download_task line 59
AppThreadBegins(task_id) ==
    /\ app_pc[task_id] = "started"
    /\ app_download_tasks' = [app_download_tasks EXCEPT ![task_id].status = "downloading"]
    /\ app_pc' = [app_pc EXCEPT ![task_id] = "download_video"]
    /\ http' = NoExchange
    /\ call' = NoCall
    /\ UNCHANGED <<svc_vars, app_args, app_result, calls, raised, files, ydl_opts>>

\* lines 62-65 and 72: download_video returns and the thread writes the status
AppWriteStatus(task_id, result) ==
    /\ app_pc[task_id] = "download_video"
    /\ result \in download_video(app_args[task_id][1].video_url)
    /\ app_result' = [app_result EXCEPT ![task_id] = Some(result)]
    /\ IF result.status = "success"
       THEN /\ app_download_tasks' =
                   [app_download_tasks EXCEPT ![task_id].status = "completed"]
            /\ app_pc' = [app_pc EXCEPT ![task_id] = "line67"]
       ELSE /\ app_download_tasks' =
                   [app_download_tasks EXCEPT ![task_id].status = "failed"]
            /\ app_pc' = [app_pc EXCEPT ![task_id] = "line73"]
    /\ raised' = [raised EXCEPT ![task_id] = result.status = "error"]
    /\ http' = NoExchange
    /\ call' = NoCall
    /\ UNCHANGED <<svc_vars, app_args, calls, files, ydl_opts>>

\* line 67: the metadata without the full path
AppInfo(result) == [status |-> result.status, title |-> result.title]

AppWriteInfo(task_id) ==
    /\ app_pc[task_id] = "line67"
    /\ app_download_tasks' =
           [app_download_tasks EXCEPT ![task_id].info = Some(AppInfo(app_result[task_id][1]))]
    /\ app_pc' = [app_pc EXCEPT ![task_id] = "line69"]
    /\ http' = NoExchange
    /\ call' = NoCall
    /\ UNCHANGED <<svc_vars, app_args, app_result, calls, raised, files, ydl_opts>>

\* line 69, and the thread ends
AppWriteFilepath(task_id) ==
    /\ app_pc[task_id] = "line69"
    /\ app_download_tasks' =
           [app_download_tasks EXCEPT
               ![task_id].filepath = Some(basename(app_result[task_id][1].filepath))]
    /\ app_pc' = [app_pc EXCEPT ![task_id] = "done"]
    /\ app_result' = [app_result EXCEPT ![task_id] = None]
    /\ http' = NoExchange
    /\ call' = NoCall
    /\ UNCHANGED <<svc_vars, app_args, calls, raised, files, ydl_opts>>

\* line 73, and the thread ends
AppWriteError(task_id) ==
    /\ app_pc[task_id] = "line73"
    /\ app_download_tasks' =
           [app_download_tasks EXCEPT ![task_id].error = Some(app_result[task_id][1].message)]
    /\ app_pc' = [app_pc EXCEPT ![task_id] = "done"]
    /\ app_result' = [app_result EXCEPT ![task_id] = None]
    /\ http' = NoExchange
    /\ call' = NoCall
    /\ UNCHANGED <<svc_vars, app_args, calls, raised, files, ydl_opts>>

\* an f-string's text for an Optional[str]
FormatStr(o) == IF o = None THEN <<"None">> ELSE o[1]

\* get_download_status of app.py: the response for the dict it reads
AppStatusResponse(tasks, task_id) ==
    IF task_id \notin DOMAIN tasks THEN [code |-> 404]
    ELSE CASE tasks[task_id].status = "completed" ->
                [code |-> 200, status |-> "completed",
                 download_link |-> <<"/downloaded/">> \o FormatStr(tasks[task_id].filepath),
                 info |-> tasks[task_id].info]
           [] tasks[task_id].status = "failed" ->
                [code |-> 200, status |-> "failed", error |-> tasks[task_id].error]
           [] tasks[task_id].status = "downloading" ->
                [code |-> 200, status |-> "downloading",
                 message |-> "Download in progress. Check back later."]
           [] OTHER -> [code |-> 200, status |-> tasks[task_id].status]

\* GET /status/<task_id> of app.py
AppGetDownloadStatus(task_id) ==
    /\ http' = [req |-> [op |-> "app_status", task_id |-> task_id],
                resp |-> AppStatusResponse(app_download_tasks, task_id)]
    /\ call' = NoCall
    /\ UNCHANGED <<svc_vars, app_vars, calls, raised, files, ydl_opts>>

\* ------------------------------------------------------------- artifact retrieval
\* get_downloaded_file of the service: the response, file being the path served
get_downloaded_file(filename, disk) ==
    IF ~is_file(join(DOWNLOAD_DIR, filename), disk)
    THEN [code |-> 404, file |-> None]
    ELSE IF ~startswith(resolve(join(DOWNLOAD_DIR, filename)), resolve(DOWNLOAD_DIR))
    THEN [code |-> 400, file |-> None]
    ELSE [code |-> 200, file |-> Some(resolve(join(DOWNLOAD_DIR, filename)))]

\* GET /downloaded/{filename} of the service
GetDownloadedFile(filename) ==
    /\ http' = [req |-> [op |-> "file", filename |-> filename],
                resp |-> get_downloaded_file(filename, files)]
    /\ call' = NoCall
    /\ UNCHANGED <<svc_vars, app_vars, calls, raised, files, ydl_opts>>

\* werkzeug's safe_join: None for a name that leaves the directory
safe_join(directory, filename) ==
    IF \/ isabs(normpath(filename))
       \/ normpath(filename) = <<"..">>
       \/ startswith(normpath(filename), <<"..", "/">>)
    THEN None
    ELSE Some(join(directory, normpath(filename)))

\* send_from_directory(DOWNLOAD_DIR, filename): the path it sends, None when it
\* raises werkzeug's NotFound (an unsafe name, or no regular file of that name)
send_from_directory(directory, filename, disk) ==
    IF safe_join(directory, filename) = None THEN None
    ELSE IF ~is_file(join(BASE_DIR, safe_join(directory, filename)[1]), disk) THEN None
    ELSE Some(normpath(join(BASE_DIR, safe_join(directory, filename)[1])))

\* serve_downloaded_file of app.py: NotFound is no FileNotFoundError, so it is the
\* clause for Exception that answers it
serve_downloaded_file(filename, disk) ==
    IF filename = <<>> THEN [code |-> 400, file |-> None]
    ELSE IF send_from_directory(APP_DOWNLOAD_DIR, filename, disk) = None
    THEN [code |-> 500, file |-> None]
    ELSE [code |-> 200, file |-> send_from_directory(APP_DOWNLOAD_DIR, filename, disk)]

\* GET /downloaded/<path:filename> of app.py
AppServeDownloadedFile(filename) ==
    /\ http' = [req |-> [op |-> "app_file", filename |-> filename],
                resp |-> serve_downloaded_file(filename, files)]
    /\ call' = NoCall
    /\ UNCHANGED <<svc_vars, app_vars, calls, raised, files, ydl_opts>>

\* ------------------------------------------------------------- option building
\* str.lower() on a token, and on a token sequence
LowerToken(t) == CASE t = "Audio" -> "audio" [] t = "IMAGE" -> "image" [] OTHER -> t

lower(s) == [k \in DOMAIN s |-> LowerToken(s[k])]

\* 'x in s' for a word x and a string s of tokens
contains(s, x) == \E k \in DOMAIN s : s[k] = x

\* the default of DownloadRequest.quality and of ydl_opts['format']
BestVideoBestAudio == <<"bestvideo", "+", "bestaudio", "/", "best">>

\* the formats and qualities a client sends: null, the schema's default, or a
\* value of its own
RequestFormats ==
    {None, Some(<<"mp4">>), Some(<<"webm">>), Some(<<"mp3">>), Some(<<"audio">>),
     Some(<<"Audio">>), Some(<<"image">>)}

RequestQualities ==
    {None, Some(<< >>), Some(BestVideoBestAudio), Some(<<"bestaudio", "/", "best">>),
     Some(<<"137">>)}

DownloadRequests ==
    [format : RequestFormats, quality : RequestQualities,
     browserForCookies : {None, Some(<<"chrome">>)},
     proxy : {None, Some(<<"socks5://host:1080">>)}]

\* lines 157-170: the options before the request is looked at
DefaultOpts ==
    [format |-> BestVideoBestAudio, merge_output_format |-> Some(<<"mp4">>),
     extract_audio |-> FALSE, audio_format |-> None, postprocessors |-> << >>,
     writethumbnail |-> FALSE, skip_download |-> FALSE,
     cookiesfrombrowser |-> None, proxy |-> None]

\* lines 173-196: format and quality of the request; a deleted key is None
FormatOpts(o, request) ==
    IF Truthy(request.format) /\ Truthy(request.quality)
    THEN IF contains(lower(request.format[1]), "audio")
         THEN [o EXCEPT !.format = request.quality[1], !.extract_audio = TRUE,
                        !.audio_format = Some("mp3"),
                        !.postprocessors = <<"FFmpegExtractAudio">>,
                        !.merge_output_format = None]
         ELSE IF lower(request.format[1]) = <<"image">>
         THEN [o EXCEPT !.format = <<"best">>, !.writethumbnail = TRUE,
                        !.skip_download = TRUE, !.merge_output_format = None]
         ELSE [o EXCEPT !.format = request.quality[1]
                                      \o <<"+", "bestaudio", "/">> \o BestVideoBestAudio,
                        !.merge_output_format = request.format]
    ELSE o

\* lines 198-206: cookies and proxy
NetworkOpts(o, request) ==
    [o EXCEPT !.cookiesfrombrowser = IF Truthy(request.browserForCookies)
                                     THEN request.browserForCookies ELSE None,
              !.proxy = IF Truthy(request.proxy) THEN request.proxy ELSE None]

\* lines 157-206: the options perform_download hands to yt_dlp.YoutubeDL
build_ydl_opts(request) == NetworkOpts(FormatOpts(DefaultOpts, request), request)

\* perform_download builds the options for a request
BuildOptions(request) ==
    /\ ydl_opts' = [request |-> Some(request), opts |-> Some(build_ydl_opts(request))]
    /\ UNCHANGED <<svc_vars, app_vars, rep_vars, raised, http, files>>

\* ------------------------------------------------------------- reporter calls
\* A caller other than a running perform_download holds a ProgressReporter(task_id),
\* for an id with no job or with a settled one, and calls update_progress on it.
ReporterUpdateProgress(task_id, percent) ==
    /\ calls < MaxCalls
    /\ pc[task_id] \in {"none", "done"}
    /\ download_tasks' = update_progress(download_tasks, task_id, percent,
                                         <<"00:01">>, <<"2MiB/s">>, <<"Reported">>)
    /\ calls' = calls + 1
    /\ call' = [method |-> "update_progress", task_id |-> task_id, status |-> "",
                 percent |-> percent]
    /\ http' = NoExchange
    /\ UNCHANGED <<pc, final_info_dict, downloaded_file_full_path, hooks, clock, app_vars,
                   raised, files, ydl_opts>>

\* ... and set_status(status, error, filepath)
ReporterSetStatus(task_id, status, error, filepath) ==
    /\ calls < MaxCalls
    /\ pc[task_id] \in {"none", "done"}
    /\ download_tasks' = set_status(download_tasks, task_id, status, error, filepath,
                                    clock[task_id])
    /\ clock' = [clock EXCEPT ![task_id] = @ + 1]
    /\ calls' = calls + 1
    /\ call' = [method |-> "set_status", task_id |-> task_id, status |-> status,
                 percent |-> 0]
    /\ http' = NoExchange
    /\ UNCHANGED <<pc, final_info_dict, downloaded_file_full_path, hooks, app_vars,
                   raised, files, ydl_opts>>

\* lines 111-117 of perform_download: the registry after the lookup and, for a
\* record found, the first write
perform_download_lookup(tasks, task_id) ==
    IF task_id \in DOMAIN tasks
    THEN [tasks EXCEPT ![task_id].status = "downloading"]
    ELSE tasks

\* ... or calls perform_download for an id with no job: the lookup of line 111
\* finds nothing and line 114 returns
ReporterPerformDownload(task_id) ==
    /\ calls < MaxCalls
    /\ pc[task_id] = "none"
    /\ download_tasks' = perform_download_lookup(download_tasks, task_id)
    /\ calls' = calls + 1
    /\ call' = [method |-> "perform_download", task_id |-> task_id, status |-> "",
                 percent |-> 0]
    /\ http' = NoExchange
    /\ UNCHANGED <<pc, final_info_dict, downloaded_file_full_path, hooks, clock, app_vars,
                   raised, files, ydl_opts>>

\* the arguments such a caller passes to set_status
SetStatusArgs ==
    { [status |-> "post-processing", error |-> None, filepath |-> None],
      [status |-> "completed", error |-> None, filepath |-> Some(<<"/", "tmp", "/", "z.mp4">>)],
      [status |-> "failed", error |-> Some("cancelled"), filepath |-> None] }

\* ------------------------------------------------------------- specifications
\* a job of the service: its submission and its background unit
JobNext ==
    \/ \E b \in Bodies, i \in TaskIds : StartDownload(b, i)
    \/ \E i \in TaskIds : PerformDownloadStart(i)
    \/ \E i \in TaskIds, d \in HookEvents : ProgressHook(i, d)
    \/ \E i \in TaskIds, d \in HookEvents : ProgressHookRaises(i, d)
    \/ \E i \in TaskIds, e \in Exceptions : DownloadRaises(i, e)
    \/ \E i \in TaskIds : DownloadReturns(i)
    \/ \E i \in TaskIds, p \in {None} \cup {Some(q) : q \in Paths}, x \in BOOLEAN :
          ReExtract(i, p, x)

\* the service's other requests
SvcNext ==
    \/ JobNext
    \/ \E b \in Bodies : StartDownloadInvalid(b)
    \/ \E i \in TaskIds : GetDownloadStatus(i)

AppNext ==
    \/ \E b \in AppBodies : AppStartDownloadRefused(b)
    \/ \E b \in AppBodies, i \in TaskIds : AppStartDownload(b, i)
    \/ \E i \in TaskIds : AppThreadBegins(i)
    \/ \E i \in TaskIds, r \in DownloadVideoSuccess \cup DownloadVideoError :
          AppWriteStatus(i, r)
    \/ \E i \in TaskIds : AppWriteInfo(i)
    \/ \E i \in TaskIds : AppWriteFilepath(i)
    \/ \E i \in TaskIds : AppWriteError(i)
    \/ \E i \in TaskIds : AppGetDownloadStatus(i)

ReporterNext ==
    \/ \E i \in TaskIds, p \in {50} : ReporterUpdateProgress(i, p)
    \/ \E i \in TaskIds, a \in SetStatusArgs :
          ReporterSetStatus(i, a.status, a.error, a.filepath)
    \/ \E i \in TaskIds : ReporterPerformDownload(i)

\* both programs
Next == SvcNext \/ AppNext

Spec == Init /\ [][Next]_vars

\* the service's jobs with ProgressReporter also called from outside perform_download
SpecReporter == Init /\ [][JobNext \/ ReporterNext]_vars

\* the jobs of both programs: submissions and background units
AppJobNext ==
    \/ \E b \in AppBodies, i \in TaskIds : AppStartDownload(b, i)
    \/ \E i \in TaskIds : AppThreadBegins(i)
    \/ \E i \in TaskIds, r \in DownloadVideoSuccess \cup DownloadVideoError :
          AppWriteStatus(i, r)
    \/ \E i \in TaskIds : AppWriteInfo(i)
    \/ \E i \in TaskIds : AppWriteFilepath(i)
    \/ \E i \in TaskIds : AppWriteError(i)

\* a step of the background unit of job i other than a callback of the collaborator
UnitStep(i) ==
    \/ PerformDownloadStart(i)
    \/ DownloadReturns(i)
    \/ \E e \in Exceptions : DownloadRaises(i, e)
    \/ \E q \in {None} \cup {Some(r) : r \in Paths}, x \in BOOLEAN : ReExtract(i, q, x)
    \/ AppThreadBegins(i)
    \/ \E r \in DownloadVideoSuccess \cup DownloadVideoError : AppWriteStatus(i, r)
    \/ AppWriteInfo(i)
    \/ AppWriteFilepath(i)
    \/ AppWriteError(i)

\* The event loop runs every task it was given, a started thread runs, and the
\* collaborator's call returns or raises: a background unit that can take a step
\* takes one in the end.
Fairness == \A i \in TaskIds : WF_vars(UnitStep(i))

\* the jobs of both programs, without the requests that only read
SpecJobs == Init /\ [][JobNext \/ AppJobNext]_vars

\* Whether a background unit ends depends on a callback only through its kind:
\* a progress report that parses or one that does not, a 'finished' with or
\* without a path, any other status.
EventKinds ==
    { d \in DownloadingEvents :
          d.percent_str \in {<<"ESC", " ", "50.0", "%", "ESC">>, <<"Unknown", " ", "%">>} }
    \cup { d \in FinishedEvents : d.requested_downloads = None }
    \cup OtherEvents

FairNext ==
    \/ \E b \in Bodies, i \in TaskIds : StartDownload(b, i)
    \/ \E i \in TaskIds : PerformDownloadStart(i)
    \/ \E i \in TaskIds, d \in EventKinds : ProgressHook(i, d)
    \/ \E i \in TaskIds, d \in EventKinds : ProgressHookRaises(i, d)
    \/ \E i \in TaskIds, e \in Exceptions : DownloadRaises(i, e)
    \/ \E i \in TaskIds : DownloadReturns(i)
    \/ \E i \in TaskIds, p \in {None} \cup {Some(q) : q \in Paths}, x \in BOOLEAN :
          ReExtract(i, p, x)
    \/ AppJobNext

SpecFair == Init /\ [][FairNext]_vars /\ Fairness

\* the jobs by the kinds of their callbacks, with a caller of the reporter and
\* of perform_download other than the job itself
CallersNext ==
    \/ \E b \in Bodies, i \in TaskIds : StartDownload(b, i)
    \/ \E i \in TaskIds : PerformDownloadStart(i)
    \/ \E i \in TaskIds, d \in EventKinds : ProgressHook(i, d)
    \/ \E i \in TaskIds, d \in EventKinds : ProgressHookRaises(i, d)
    \/ \E i \in TaskIds, e \in Exceptions : DownloadRaises(i, e)
    \/ \E i \in TaskIds : DownloadReturns(i)
    \/ \E i \in TaskIds, p \in {None} \cup {Some(q) : q \in Paths}, x \in BOOLEAN :
          ReExtract(i, p, x)
    \/ ReporterNext

SpecCallers == Init /\ [][CallersNext]_vars

\* the request handlers of both programs, on any disk, before a background unit runs
RequestNext ==
    \/ \E b \in Bodies : StartDownloadInvalid(b)
    \/ \E b \in Bodies, i \in TaskIds : StartDownload(b, i)
    \/ \E i \in TaskIds : GetDownloadStatus(i)
    \/ \E f \in FileNames : GetDownloadedFile(f)
    \/ \E b \in AppBodies : AppStartDownloadRefused(b)
    \/ \E b \in AppBodies, i \in TaskIds : AppStartDownload(b, i)
    \/ \E i \in TaskIds : AppGetDownloadStatus(i)
    \/ \E f \in FileNames : AppServeDownloadedFile(f)

InitRequests == InitJobs /\ files \in SUBSET AllFiles

SpecRequests == InitRequests /\ [][RequestNext]_vars

\* the option building of perform_download, for the requests of DownloadRequests
OptionsNext == \E r \in DownloadRequests : BuildOptions(r)

SpecOptions == Init /\ [][OptionsNext]_vars

\* ------------------------------------------------------------- claims
Terminal == {"completed", "failed"}

\* the order of the statuses: queued < downloading < post-processing < terminal
Rank(status) ==
    CASE status \in {"queued", "pending"} -> 0
      [] status = "downloading" -> 1
      [] status = "post-processing" -> 2
      [] status \in Terminal -> 3

\* C1: the status of a service job never moves to a lower rank, whatever
\* callbacks the collaborator makes and however the job ends.
C1_StatusNeverRegresses ==
    [][\A i \in DOMAIN download_tasks :
          Rank(download_tasks'[i].status) >= Rank(download_tasks[i].status)]_vars

\* C1 witness: a progress callback and a 'finished' callback have both been
\* applied and the job shows post-processing with the reported percent.
C1_Witness ==
    \E i \in DOMAIN download_tasks :
        /\ download_tasks[i].status = "post-processing"
        /\ download_tasks[i].progress.percent = 50
        /\ hooks[i] = 2

\* one record of the service is left as it was by this step
SameRecord(i) == download_tasks'[i] = download_tasks[i]

\* C2 (as claimed): once a record is terminal, update_progress and set_status
\* with a non-terminal status change nothing of it.
C2_LateReportsAreNoOps ==
    [][\A i \in DOMAIN download_tasks :
          ( /\ call'.task_id = i
            /\ \/ call'.method = "update_progress"
               \/ call'.method = "set_status" /\ call'.status \notin Terminal
            /\ download_tasks[i].status \in Terminal )
          => SameRecord(i)]_vars

\* C3 (as claimed): set_status with a terminal status on a terminal record
\* leaves the record as the first terminal call wrote it.
C3_TerminalReportedOnce ==
    [][\A i \in DOMAIN download_tasks :
          ( /\ call'.task_id = i
            /\ call'.method = "set_status" /\ call'.status \in Terminal
            /\ download_tasks[i].status \in Terminal )
          => SameRecord(i)]_vars

\* C4 (as claimed): once a record of either program is completed or failed, no
\* later step of the task runner changes any of its fields.
C4_TerminalRecordsImmutable ==
    [][ /\ \A i \in DOMAIN download_tasks :
              download_tasks[i].status \in Terminal => SameRecord(i)
        /\ \A i \in DOMAIN app_download_tasks :
              app_download_tasks[i].status \in Terminal
                  => app_download_tasks'[i] = app_download_tasks[i] ]_vars

\* C5 (as claimed): a status response that says completed carries the result:
\* the file name and, in the Flask program, the info.
C5_CompletedResponsesAreWhole ==
    /\ (http.req.op = "status" /\ http.resp.code = 200 /\ http.resp.status = "completed")
          => http.resp.task.filepath # None
    /\ (http.req.op = "app_status" /\ http.resp.code = 200
            /\ http.resp.status = "completed")
          => /\ http.resp.info # None
             /\ http.resp.download_link # <<"/downloaded/", "None">>

\* C6 (as claimed): endTime is absent while a job is not terminal, and a step
\* that writes it is the first to do so and makes the job terminal.
C6_EndTimeWrittenOnceAtTheEnd ==
    /\ [](\A i \in DOMAIN download_tasks :
             download_tasks[i].status \notin Terminal => download_tasks[i].endTime = None)
    /\ [][\A i \in DOMAIN download_tasks :
             download_tasks'[i].endTime # download_tasks[i].endTime
                 => /\ download_tasks[i].endTime = None
                    /\ download_tasks'[i].status \in Terminal]_vars

\* C7: in both registries a file name is present only on a completed record, an
\* error only on a failed one, and never both.
C7_ResultAndErrorExclusive ==
    /\ \A i \in DOMAIN download_tasks :
          /\ download_tasks[i].filepath # None => download_tasks[i].status = "completed"
          /\ download_tasks[i].error # None => download_tasks[i].status = "failed"
          /\ ~(download_tasks[i].filepath # None /\ download_tasks[i].error # None)
    /\ \A i \in DOMAIN app_download_tasks :
          /\ app_download_tasks[i].filepath # None
                => app_download_tasks[i].status = "completed"
          /\ app_download_tasks[i].error # None => app_download_tasks[i].status = "failed"
          /\ ~(app_download_tasks[i].filepath # None /\ app_download_tasks[i].error # None)

\* C7 witness: a service job completed after a 'finished' callback, with its file
\* name, while a Flask job failed with its error.
C7_Witness ==
    /\ \E i \in DOMAIN download_tasks :
          /\ download_tasks[i].filepath = Some(<<"a.mp4">>)
          /\ download_tasks[i].endTime = Some(2)
    /\ \E i \in DOMAIN app_download_tasks : app_download_tasks[i].error # None

\* C8: a valid submit answers with an id the registry did not hold, and a status
\* read before any background step of the job shows queued with percent 0.
C8_SubmitFreshAndQueued ==
    /\ [][(http'.req.op = "start" /\ http'.resp.code = 202)
            => /\ http'.resp.task_id \notin DOMAIN download_tasks
               /\ StatusResponse(download_tasks', http'.resp.task_id).code = 200
               /\ StatusResponse(download_tasks', http'.resp.task_id).status = "queued"
               /\ StatusResponse(download_tasks', http'.resp.task_id).task.progress.percent = 0
          ]_vars
    /\ [](\A i \in TaskIds :
             pc[i] = "scheduled"
                 => /\ StatusResponse(download_tasks, i).status = "queued"
                    /\ StatusResponse(download_tasks, i).task.progress.percent = 0)

\* C8 witness: a second submit was accepted while the first job was under way.
C8_Witness ==
    /\ http.req.op = "start" /\ http.resp.code = 202
    /\ \E i \in DOMAIN download_tasks :
          i # http.resp.task_id /\ download_tasks[i].status = "post-processing"

\* C9 (as claimed): a submit without a url, or with an empty one, is refused in
\* either program and leaves the registries and the background units as they were.
C9_EmptyUrlRejected ==
    [][(http'.req.op \in {"start", "app_start"} /\ http'.req.body.url \in {None, Some("")})
          => /\ http'.resp.code \in {400, 422}
             /\ download_tasks' = download_tasks /\ pc' = pc
             /\ app_download_tasks' = app_download_tasks /\ app_pc' = app_pc]_vars

C12_UnresolvedPathFails ==
    /\ [](\A i \in DOMAIN download_tasks :
             download_tasks[i].status = "completed" => Truthy(downloaded_file_full_path[i]))
    /\ [][\A i \in DOMAIN download_tasks :
             (pc[i] = "re_extract" /\ pc'[i] # "re_extract"
                  /\ ~Truthy(downloaded_file_full_path'[i]))
                => /\ download_tasks'[i].status = "failed"
                   /\ download_tasks'[i].error = Some(PathError.msg)
                   /\ download_tasks'[i].filepath = None]_vars

\* C12 witness: the download returned after two 'finished' callbacks without a path,
\* the fallback computed a name that is not on disk, and the job failed.
C12_Witness ==
    \E i \in DOMAIN download_tasks :
        /\ pc[i] = "done" /\ ~raised[i]
        /\ downloaded_file_full_path[i] = None
        /\ download_tasks[i].error = Some(PathError.msg)
        /\ download_tasks[i].endTime = Some(3)

\* C13 (as claimed): the percent of every record of the service lies in [0, 100].
C13_PercentWithinRange ==
    \A i \in DOMAIN download_tasks :
        /\ download_tasks[i].progress.percent >= 0
        /\ download_tasks[i].progress.percent <= 100

\* C14 (as claimed): while a job stays in downloading, no step lowers its percent.
C14_PercentNeverDropsWhileDownloading ==
    [][\A i \in DOMAIN download_tasks :
          (download_tasks[i].status = "downloading"
              /\ download_tasks'[i].status = "downloading")
            => download_tasks'[i].progress.percent >= download_tasks[i].progress.percent]_vars

\* C15 (as claimed): update_progress(p) on a record that is not terminal stores p
\* as its percent and leaves it in status downloading.
C15_ProgressReportLeavesDownloading ==
    [][\A i \in DOMAIN download_tasks :
          (call'.method = "update_progress" /\ call'.task_id = i
              /\ download_tasks[i].status \notin Terminal)
            => /\ download_tasks'[i].progress.percent = call'.percent
               /\ download_tasks'[i].status = "downloading"]_vars

\* C16: a progress update is stored in the step the collaborator emits it and no
\* other step changes the stored progress, so the record always shows the latest
\* update; and once the terminal status is written no progress update is made.
C16_ProgressInOrderThenTerminal ==
    /\ [][\A i \in DOMAIN download_tasks :
             IF call'.method = "update_progress" /\ call'.task_id = i
             THEN download_tasks'[i].progress.percent = call'.percent
             ELSE download_tasks'[i].progress = download_tasks[i].progress]_vars
    /\ [][\A i \in DOMAIN download_tasks :
             download_tasks[i].status \in Terminal
                => /\ download_tasks'[i].progress = download_tasks[i].progress
                   /\ ~(call'.method = "update_progress" /\ call'.task_id = i)]_vars

\* C16 witness: the second callback of a job has just stored its update over the
\* first one's, and the other job is completed with the update it ended on.
C16_Witness ==
    /\ call.method = "update_progress" /\ call.percent = 0
    /\ hooks[call.task_id] = 2
    /\ download_tasks[call.task_id].progress.percent = 0
    /\ download_tasks[call.task_id].progress.status_message
           = <<"Downloading: ", "a.part", "N/A", "%">>
    /\ \E i \in DOMAIN download_tasks :
          download_tasks[i].status = "completed" /\ download_tasks[i].progress.percent = 50

\* the directory a resolved path lies in is the download directory or one below it
InDownloadDir(path) == startswith(path, resolve(DOWNLOAD_DIR) \o <<"/">>)

\* C17 (as claimed): a file name whose resolved path lies outside the download
\* directory is never answered with a file, in either program.
C17_NothingServedFromOutside ==
    (http.req.op \in {"file", "app_file"}
        /\ ~InDownloadDir(resolve(join(DOWNLOAD_DIR, http.req.filename))))
      => (http.resp.code # 200 /\ http.resp.file = None)

\* C18 (as claimed): get_downloaded_file answers a name with a ".." component as
\* a bad request, whether or not its target exists.
C18_TraversalRejectedFirst ==
    (http.req.op = "file"
        /\ \E k \in 1..Len(parts(http.req.filename, <<>>, <<>>)) :
               parts(http.req.filename, <<>>, <<>>)[k] = <<"..">>)
      => http.resp.code = 400

\* C19: the file name stored in a record of either registry has no path
\* separator in it, so it is no absolute path either.
C19_StoredNameIsBaseName ==
    /\ \A i \in DOMAIN download_tasks :
          download_tasks[i].filepath # None
              => /\ \A k \in 1..Len(download_tasks[i].filepath[1]) :
                       download_tasks[i].filepath[1][k] # "/"
                 /\ ~isabs(download_tasks[i].filepath[1])
    /\ \A i \in DOMAIN app_download_tasks :
          app_download_tasks[i].filepath # None
              => /\ \A k \in 1..Len(app_download_tasks[i].filepath[1]) :
                       app_download_tasks[i].filepath[1][k] # "/"
                 /\ ~isabs(app_download_tasks[i].filepath[1])

\* C19 witness: a service job completed on the fallback's full path and a Flask
\* job completed on download_video's path; both store the base name.
C19_Witness ==
    /\ \E i \in DOMAIN download_tasks :
          /\ downloaded_file_full_path[i] = Some(<<"/", "srv", "/", "downloads", "/", "c.webm">>)
          /\ download_tasks[i].filepath = Some(<<"c.webm">>)
    /\ \E i \in DOMAIN app_download_tasks :
          app_download_tasks[i].filepath = Some(<<"Song", ".mp4">>)

C21_SubmitDoesNotWait ==
    /\ [][/\ (http'.req.op = "start" /\ http'.resp.code = 202)
               => ( /\ download_tasks'[http'.resp.task_id].status = "queued"
                    /\ pc'[http'.resp.task_id] = "scheduled"
                    /\ \A j \in TaskIds \ {http'.resp.task_id} :
                          pc'[j] = pc[j] /\ app_pc'[j] = app_pc[j] )
          /\ (http'.req.op = "app_start" /\ http'.resp.code = 202)
               => ( /\ app_download_tasks'[http'.resp.task_id].status = "pending"
                    /\ app_pc'[http'.resp.task_id] = "started"
                    /\ \A j \in TaskIds \ {http'.resp.task_id} :
                          pc'[j] = pc[j] /\ app_pc'[j] = app_pc[j] ) ]_vars
    /\ [](FreshIds(download_tasks, app_download_tasks) # {}
            => ( /\ ENABLED (\E b \in Bodies, i \in TaskIds : StartDownload(b, i))
                 /\ ENABLED (\E b \in AppBodies, i \in TaskIds : AppStartDownload(b, i)) ))

\* C21 witness: the Flask program has just answered a submit, its thread not yet
\* running, while the collaborator is at work on a job of the service.
C21_Witness ==
    /\ http.req.op = "app_start" /\ http.resp.code = 202
    /\ app_pc[http.resp.task_id] = "started"
    /\ app_download_tasks[http.resp.task_id].status = "pending"
    /\ \E j \in DOMAIN download_tasks : pc[j] = "thread" /\ hooks[j] = 1

C23_UnknownIdIsNoOp ==
    [][\A i \in TaskIds \ DOMAIN download_tasks :
          (call'.task_id = i
              /\ call'.method \in {"update_progress", "set_status", "perform_download"})
            => ( /\ download_tasks' = download_tasks
                 /\ raised' = raised
                 /\ pc' = pc )]_vars

\* C23 witness: set_status was called for an id with no record while the registry
\* held a job at work, and the registry still holds that job alone.
C23_Witness ==
    /\ call.method = "set_status" /\ call.status = "completed"
    /\ call.task_id \notin DOMAIN download_tasks
    /\ \E j \in DOMAIN download_tasks :
          /\ DOMAIN download_tasks = {j}
          /\ download_tasks[j].status = "post-processing"
          /\ download_tasks[j].filepath = None

\* C24: the registries only grow. No step removes a key; the record under a key
\* stays the record of that submit (its id, url and start time); and a submit
\* returns an id that was a key of no registry and is a key afterwards.
C24_RegistryOnlyGrows ==
    [][/\ DOMAIN download_tasks \subseteq DOMAIN download_tasks'
       /\ DOMAIN app_download_tasks \subseteq DOMAIN app_download_tasks'
       /\ \A i \in DOMAIN download_tasks :
             /\ download_tasks'[i].id = i
             /\ download_tasks'[i].url = download_tasks[i].url
             /\ download_tasks'[i].startTime = download_tasks[i].startTime
       /\ (http'.req.op = "start" /\ http'.resp.code = 202)
             => ( /\ http'.resp.task_id \notin DOMAIN download_tasks
                  /\ http'.resp.task_id \in DOMAIN download_tasks'
                  /\ download_tasks'[http'.resp.task_id].id = http'.resp.task_id
                  /\ DOMAIN download_tasks' = DOMAIN download_tasks \cup {http'.resp.task_id} )
       /\ (http'.req.op = "app_start" /\ http'.resp.code = 202)
             => ( /\ http'.resp.task_id \notin DOMAIN app_download_tasks
                  /\ DOMAIN app_download_tasks' =
                        DOMAIN app_download_tasks \cup {http'.resp.task_id} )]_vars

\* C24 witness: a poll is answered while the registry holds two jobs, one failed
\* and one completed.
C24_Witness ==
    /\ http.req.op = "status"
    /\ \E i, j \in DOMAIN download_tasks :
          /\ download_tasks[i].status = "failed"
          /\ download_tasks[j].status = "completed"
          /\ download_tasks[i].id = i /\ download_tasks[j].id = j

\* the step is one of job a: its submit, or a step of its background unit
StepOf(a) == pc'[a] # pc[a] \/ hooks'[a] # hooks[a] \/ app_pc'[a] # app_pc[a]

\* C25: a step of job A (its start, a progress report, a phase change, its end or
\* a caught failure) leaves the record of every other job B as it was, in both
\* registries and under every interleaving of the two jobs.
C25_JobsIsolated ==
    [][\A a \in TaskIds :
          StepOf(a)
            => ( /\ \A b \in DOMAIN download_tasks \ {a} :
                       download_tasks'[b] = download_tasks[b]
                 /\ \A b \in DOMAIN app_download_tasks \ {a} :
                       app_download_tasks'[b] = app_download_tasks[b] )]_vars

\* C25 witness: two jobs are being downloaded at once, each has reported its
\* progress, and each record shows its own.
C25_Witness ==
    \E a, b \in DOMAIN download_tasks :
       /\ a # b
       /\ pc[a] = "thread" /\ pc[b] = "thread"
       /\ hooks[a] = 1 /\ hooks[b] = 1
       /\ call.method = "update_progress" /\ call.task_id = b
       /\ download_tasks[a].progress.percent = 50
       /\ download_tasks[b].progress.percent = 150

\* the step writes the record of job i from the worker thread: a reporter call of
\* its progress hook
WorkerWrites(i) == call'.method # "none" /\ call'.task_id = i

\* the step writes the record of job i from its coroutine on the event loop
LoopWrites(i) ==
    /\ call'.method = "none"
    /\ i \in DOMAIN download_tasks
    /\ download_tasks'[i] # download_tasks[i]

\* C26: one context at a time writes a record. The worker thread writes only
\* while the coroutine of its job is suspended on the download, before and after
\* the write; the coroutine writes only in a step that leaves its position before
\* the download or ends it after the download; and a step that writes the record
\* of a job is a step of no other job.
C26_SingleWriter ==
    [][\A i \in TaskIds :
          /\ WorkerWrites(i)
                => ( /\ pc[i] = "thread" /\ pc'[i] = "thread"
                     /\ hooks'[i] = hooks[i] + 1 )
          /\ LoopWrites(i)
                => ( /\ pc'[i] # pc[i]
                     /\ pc[i] = "scheduled" \/ pc'[i] \in {"done", "escaped"}
                     /\ hooks'[i] = 0 )
          /\ (WorkerWrites(i) \/ LoopWrites(i))
                => \A j \in TaskIds \ {i} :
                      pc'[j] = pc[j] /\ hooks'[j] = hooks[j] /\ app_pc'[j] = app_pc[j]]_vars

\* C26 witness: the coroutine of a job had written 'downloading', its worker
\* thread made two reports, and the coroutine has now written the end of the job,
\* while the thread of the other job is between two reports.
C26_Witness ==
    \E i, j \in DOMAIN download_tasks :
       /\ i # j
       /\ pc[i] = "done" /\ download_tasks[i].status = "completed"
       /\ download_tasks[i].progress.percent = 50
       /\ download_tasks[i].endTime = Some(2)
       /\ call.method = "none"
       /\ pc[j] = "thread" /\ hooks[j] = 1 /\ download_tasks[j].progress.percent = 150

\* the request asks for audio, by the test of line 174
AudioRequest(r) == Truthy(r.format) /\ contains(lower(r.format[1]), "audio")

\* the request asks for a video: its format is neither audio nor image
VideoRequest(r) == ~AudioRequest(r) /\ r.format \notin {Some(<<"image">>)}

\* the selection's first choice is the best audio stream alone
AudioOnly(selection) ==
    /\ selection # << >>
    /\ selection[1] = "bestaudio"
    /\ Len(selection) > 1 => selection[2] = "/"

\* the selection has the choice 'bestvideo+bestaudio'
Combined(selection) ==
    \E k \in 1..(Len(selection) - 2) :
       /\ selection[k] = "bestvideo" /\ selection[k + 1] = "+"
       /\ selection[k + 2] = "bestaudio"
       /\ k > 1 => selection[k - 1] = "/"
       /\ Len(selection) > k + 2 => selection[k + 3] = "/"

\* C27 (as claimed): the options built for an audio request hold an audio-only
\* selection, the audio-extraction post-processor and no merge container; those
\* built for a video request hold a combined best-video-plus-best-audio selection
\* and a merge container.
C27_OptionsFollowFormat ==
    ydl_opts.opts # None
      => ( /\ AudioRequest(ydl_opts.request[1])
                 => ( /\ AudioOnly(ydl_opts.opts[1].format)
                      /\ ydl_opts.opts[1].postprocessors = <<"FFmpegExtractAudio">>
                      /\ ydl_opts.opts[1].merge_output_format = None )
           /\ VideoRequest(ydl_opts.request[1])
                 => ( /\ Combined(ydl_opts.opts[1].format)
                      /\ ydl_opts.opts[1].merge_output_format # None ) )

\* C28: a background unit exists only for an id whose record is in the registry
\* of its program, so perform_download never takes its 'task not found' return:
\* its first step always writes 'downloading' into the record and goes on to the
\* download, and the Flask worker's first write finds its key.
C28_WorkerFindsRecord ==
    /\ [](\A i \in TaskIds :
             /\ pc[i] # "none" => i \in DOMAIN download_tasks
             /\ app_pc[i] # "none" => i \in DOMAIN app_download_tasks)
    /\ [][\A i \in TaskIds :
             /\ (pc[i] = "scheduled" /\ pc'[i] # "scheduled")
                   => ( /\ pc'[i] = "thread"
                        /\ download_tasks[i].status = "queued"
                        /\ download_tasks'[i].status = "downloading" )
             /\ (app_pc[i] = "started" /\ app_pc'[i] # "started")
                   => ( /\ app_download_tasks[i].status = "pending"
                        /\ app_download_tasks'[i].status = "downloading" )]_vars

\* C28 witness: the background units of a service job and of a Flask job have
\* both made their first write, each into its own record.
C28_Witness ==
    \E i \in DOMAIN download_tasks, j \in DOMAIN app_download_tasks :
       /\ pc[i] = "thread" /\ hooks[i] = 0
       /\ download_tasks[i].status = "downloading"
       /\ app_pc[j] = "download_video"
       /\ app_download_tasks[j].status = "downloading"
====
